---------------------------- MODULE Spec2Model ----------------------------
(***************************************************************************)
(* Model of the metal-token-rotate Secret controller: one reconciler       *)
(* worker for one Secret key, the garden store holding the Secret, the     *)
(* metal cluster answering token reviews and token requests, the config    *)
(* file and the injected clock.                                            *)
(*                                                                         *)
(* Strings are sequences of characters, so that strings.Split is computed. *)
(* A token string is a sequence of symbols: the dot and opaque blobs, one  *)
(* blob per dot-separated segment.  Durations are counted in ticks of      *)
(* 1/Second of a second; time.Duration arithmetic is modelled without its  *)
(* saturation at about 292 years.                                          *)
(***************************************************************************)
EXTENDS Integers, Sequences, FiniteSets, TLC

(***************************************************************************)
(* Bounds of the model.                                                    *)
(***************************************************************************)
\* the clock stops advancing at this many ticks
MaxClock == 1200
\* external edits of the Secret per behaviour
MaxEdits == 1
\* token requests the metal cluster answers per behaviour
MaxMints == 2

(***************************************************************************)
(* Time.                                                                   *)
(***************************************************************************)
\* ticks per second: time.Second, scaled (an even count, as 10^9 is)
Second == 2
Minute == 60 * Second
\* a requeue after one minute
RequeueAfterMinute == Minute

\* ctrl.Result{RequeueAfter: 2 * time.Minute}
RequeueAfter == 2 * Minute

\* Go's integer division truncates toward zero
Quo(a, b) ==
  IF a >= 0 THEN a \div b ELSE -((-a) \div b)

(***************************************************************************)
(* Strings.                                                                *)
(***************************************************************************)
EmptyString == << >>

\* the segments of s left and right of every occurrence of sep; one
\* (possibly empty) segment when sep does not occur
RECURSIVE SplitFrom(_, _, _, _)
SplitFrom(s, sep, i, cur) ==
  IF i > Len(s) THEN << cur >>
  ELSE IF s[i] = sep THEN << cur >> \o SplitFrom(s, sep, i + 1, << >>)
  ELSE SplitFrom(s, sep, i + 1, Append(cur, s[i]))

Split(s, sep) == SplitFrom(s, sep, 1, << >>)

(***************************************************************************)
(* parseAutoprovisionValue                                                 *)
(***************************************************************************)
Slash == "/"

NoTarget == [identity |-> EmptyString, namespace |-> EmptyString]

parseAutoprovisionValue(value) ==
  LET parts == Split(value, Slash)
  IN IF Len(parts) # 2
       THEN [err |-> TRUE, target |-> NoTarget]
       ELSE [err |-> FALSE,
             target |-> [identity |-> parts[1], namespace |-> parts[2]]]

(***************************************************************************)
(* Configuration (config.go).                                              *)
(***************************************************************************)
IdA == << "a" >>
IdB == << "b" >>
SaOne == << "s" >>
SaTwo == << "t" >>
SaNamespace == << "m" >>
KubeSecretName == << "k" >>
KubeSecretNamespace == << "n" >>

ClusterConfig(sa, sans, exp, id, tname, tns) ==
  [ServiceAccountName |-> sa, ServiceAccountNamespace |-> sans,
   ExpirationSeconds |-> exp, Identity |-> id,
   TargetSecretName |-> tname, TargetSecretNamespace |-> tns]

\* the zero value of ClusterConfig (var cfgCluster ClusterConfig)
ZeroCluster ==
  ClusterConfig(EmptyString, EmptyString, 0, EmptyString, EmptyString, EmptyString)

\* validateCluster without the rule on the target secret's two fields
validateClusterUnpaired(cluster) ==
  IF cluster.ServiceAccountName = EmptyString
    THEN [err |-> TRUE, cluster |-> cluster]
  ELSE IF cluster.ServiceAccountNamespace = EmptyString
    THEN [err |-> TRUE, cluster |-> cluster]
  ELSE LET c == IF cluster.ExpirationSeconds <= 0
                  THEN [cluster EXCEPT !.ExpirationSeconds = 3600]
                  ELSE cluster
       IN IF c.Identity = EmptyString
            THEN [err |-> TRUE, cluster |-> c]
          ELSE [err |-> FALSE, cluster |-> c]

\* validateCluster works on the *ClusterConfig it is given: the error, and
\* the cluster as the function leaves it
validateCluster(cluster) ==
  IF cluster.ServiceAccountName = EmptyString
    THEN [err |-> TRUE, cluster |-> cluster]
  ELSE IF cluster.ServiceAccountNamespace = EmptyString
    THEN [err |-> TRUE, cluster |-> cluster]
  ELSE LET c == IF cluster.ExpirationSeconds <= 0
                  THEN [cluster EXCEPT !.ExpirationSeconds = 3600]
                  ELSE cluster
       IN IF c.Identity = EmptyString
            THEN [err |-> TRUE, cluster |-> c]
          ELSE IF (c.TargetSecretName = EmptyString)
                    # (c.TargetSecretNamespace = EmptyString)
            THEN [err |-> TRUE, cluster |-> c]
          ELSE [err |-> FALSE, cluster |-> c]

\* a config file: unreadable or not JSON (readable = FALSE), or its items
ConfigFile(items) == [readable |-> TRUE, items |-> items]
BrokenFile == [readable |-> FALSE, items |-> << >>]

\* LoadConfig: "for i, cluster := range config.Clusters" hands validateCluster
\* the address of the loop variable, a copy of the element, so what
\* validateCluster writes (the 3600 default) does not reach config.Clusters
LoadConfig(file) ==
  IF ~file.readable THEN [err |-> TRUE, Clusters |-> << >>]
  ELSE IF Len(file.items) = 0 THEN [err |-> TRUE, Clusters |-> << >>]
  ELSE IF \E i \in 1..Len(file.items) : validateCluster(file.items[i]).err
    THEN [err |-> TRUE, Clusters |-> << >>]
  ELSE [err |-> FALSE, Clusters |-> file.items]

\* the loop of Reconcile: the first cluster with the target's identity, the
\* zero value when there is none
RECURSIVE FirstMatch(_, _, _)
FirstMatch(clusters, identity, i) ==
  IF i > Len(clusters) THEN ZeroCluster
  ELSE IF clusters[i].Identity = identity THEN clusters[i]
  ELSE FirstMatch(clusters, identity, i + 1)

\* a lookup that takes the first cluster when none has the identity
findClusterOrFirst(clusters, identity) ==
  IF FirstMatch(clusters, identity, 1) = ZeroCluster /\ Len(clusters) > 0
    THEN clusters[1]
    ELSE FirstMatch(clusters, identity, 1)

\* a lookup in which a later cluster of the same identity replaces an
\* earlier one
RECURSIVE LastMatch(_, _, _)
LastMatch(clusters, identity, i) ==
  IF i < 1 THEN ZeroCluster
  ELSE IF clusters[i].Identity = identity THEN clusters[i]
  ELSE LastMatch(clusters, identity, i - 1)

findClusterLast(clusters, identity) ==
  LastMatch(clusters, identity, Len(clusters))

findCluster(clusters, identity) == FirstMatch(clusters, identity, 1)

(***************************************************************************)
(* Tokens.                                                                 *)
(***************************************************************************)
\* the bytes a blob decodes to: a JSON object of claims, or something else
NoClaims ==
  [json |-> FALSE, iat |-> 0, exp |-> 0, jti |-> 0, sub |-> EmptyString]
Claims(iat, exp, jti, sub) ==
  [json |-> TRUE, iat |-> iat, exp |-> exp, jti |-> jti, sub |-> sub]

\* the symbols of a token string
Dot == [k |-> "dot", c |-> NoClaims]
Blob(c) == [k |-> "b64", c |-> c]
\* characters outside the base64url alphabet
BadChars == [k |-> "bad", c |-> NoClaims]

Jwt(c) == << Blob(NoClaims), Dot, Blob(c), Dot, Blob(NoClaims) >>

\* base64.RawURLEncoding.DecodeString of one segment
DecodeString(seg) ==
  IF \E i \in 1..Len(seg) : seg[i].k = "bad"
    THEN [err |-> TRUE, bytes |-> NoClaims]
  ELSE IF Len(seg) = 1 THEN [err |-> FALSE, bytes |-> seg[1].c]
  ELSE [err |-> FALSE, bytes |-> NoClaims]

\* json.Unmarshal into jwtClaims
Unmarshal(bytes) ==
  IF ~bytes.json THEN [err |-> TRUE, Iat |-> 0, Exp |-> 0]
  ELSE [err |-> FALSE, Iat |-> bytes.iat, Exp |-> bytes.exp]

\* what needsToken returns (err, needs) and what it went through: the
\* answer of the token review ("none" when none was asked for), age and
\* lifetime as it logs them
NeedsResult(err, needs, review, age, lifetime) ==
  [err |-> err, needs |-> needs, review |-> review,
   age |-> age, lifetime |-> lifetime]

\* needsToken comparing the age with the whole lifetime
needsTokenAtExpiry(currentToken, review, now) ==
  IF currentToken = EmptyString THEN NeedsResult("none", TRUE, "none", 0, 0)
  ELSE IF review = "error" THEN NeedsResult("review", FALSE, review, 0, 0)
  ELSE IF review = "unauthenticated"
    THEN NeedsResult("none", TRUE, review, 0, 0)
  ELSE LET parts == Split(currentToken, Dot)
       IN IF Len(parts) < 2 THEN NeedsResult("panic", FALSE, review, 0, 0)
          ELSE LET decoded == DecodeString(parts[2])
                   claims == Unmarshal(decoded.bytes)
                   age == now - claims.Iat * Second
                   lifetime == claims.Exp * Second - claims.Iat * Second
               IN IF decoded.err
                    THEN NeedsResult("decode", FALSE, review, 0, 0)
                  ELSE IF claims.err
                    THEN NeedsResult("unmarshal", FALSE, review, 0, 0)
                  ELSE NeedsResult("none", age > lifetime, review,
                                   age, lifetime)

\* needsToken taking a token it cannot decode for one to refresh
needsTokenHealing(currentToken, review, now) ==
  IF currentToken = EmptyString THEN NeedsResult("none", TRUE, "none", 0, 0)
  ELSE IF review = "error" THEN NeedsResult("review", FALSE, review, 0, 0)
  ELSE IF review = "unauthenticated"
    THEN NeedsResult("none", TRUE, review, 0, 0)
  ELSE LET parts == Split(currentToken, Dot)
       IN IF Len(parts) < 2 THEN NeedsResult("none", TRUE, review, 0, 0)
          ELSE LET decoded == DecodeString(parts[2])
                   claims == Unmarshal(decoded.bytes)
                   age == now - claims.Iat * Second
                   lifetime == claims.Exp * Second - claims.Iat * Second
               IN IF decoded.err \/ claims.err
                    THEN NeedsResult("none", TRUE, review, 0, 0)
                  ELSE NeedsResult("none", age > Quo(lifetime, 2), review,
                                   age, lifetime)

\* needsToken with the boundary on the wrong side: age >= lifetime/2
needsTokenAtHalf(currentToken, review, now) ==
  IF currentToken = EmptyString THEN NeedsResult("none", TRUE, "none", 0, 0)
  ELSE IF review = "error" THEN NeedsResult("review", FALSE, review, 0, 0)
  ELSE IF review = "unauthenticated"
    THEN NeedsResult("none", TRUE, review, 0, 0)
  ELSE LET parts == Split(currentToken, Dot)
       IN IF Len(parts) < 2 THEN NeedsResult("panic", FALSE, review, 0, 0)
          ELSE LET decoded == DecodeString(parts[2])
                   claims == Unmarshal(decoded.bytes)
                   age == now - claims.Iat * Second
                   lifetime == claims.Exp * Second - claims.Iat * Second
               IN IF decoded.err
                    THEN NeedsResult("decode", FALSE, review, 0, 0)
                  ELSE IF claims.err
                    THEN NeedsResult("unmarshal", FALSE, review, 0, 0)
                  ELSE NeedsResult("none", age >= Quo(lifetime, 2), review,
                                   age, lifetime)

\* needsToken asking for the token review before it looks at the token
needsTokenReviewsEmpty(currentToken, review, now) ==
  IF review = "error" THEN NeedsResult("review", FALSE, review, 0, 0)
  ELSE IF currentToken = EmptyString \/ review = "unauthenticated"
    THEN NeedsResult("none", TRUE, review, 0, 0)
  ELSE LET parts == Split(currentToken, Dot)
       IN IF Len(parts) < 2 THEN NeedsResult("panic", FALSE, review, 0, 0)
          ELSE LET decoded == DecodeString(parts[2])
                   claims == Unmarshal(decoded.bytes)
                   age == now - claims.Iat * Second
                   lifetime == claims.Exp * Second - claims.Iat * Second
               IN IF decoded.err
                    THEN NeedsResult("decode", FALSE, review, 0, 0)
                  ELSE IF claims.err
                    THEN NeedsResult("unmarshal", FALSE, review, 0, 0)
                  ELSE NeedsResult("none", age > Quo(lifetime, 2), review,
                                   age, lifetime)

\* needsToken decoding the claims before it looks at the review's answer
needsTokenDecodesFirst(currentToken, review, now) ==
  IF currentToken = EmptyString THEN NeedsResult("none", TRUE, "none", 0, 0)
  ELSE IF review = "error" THEN NeedsResult("review", FALSE, review, 0, 0)
  ELSE LET parts == Split(currentToken, Dot)
       IN IF Len(parts) < 2 THEN NeedsResult("panic", FALSE, review, 0, 0)
          ELSE LET decoded == DecodeString(parts[2])
                   claims == Unmarshal(decoded.bytes)
                   age == now - claims.Iat * Second
                   lifetime == claims.Exp * Second - claims.Iat * Second
               IN IF decoded.err
                    THEN NeedsResult("decode", FALSE, review, 0, 0)
                  ELSE IF claims.err
                    THEN NeedsResult("unmarshal", FALSE, review, 0, 0)
                  ELSE IF review = "unauthenticated"
                    THEN NeedsResult("none", TRUE, review, age, lifetime)
                  ELSE NeedsResult("none", age > Quo(lifetime, 2), review,
                                   age, lifetime)

\* needsToken taking a failed token review for a token to refresh
needsTokenReviewOptional(currentToken, review, now) ==
  IF currentToken = EmptyString THEN NeedsResult("none", TRUE, "none", 0, 0)
  ELSE IF review = "error" \/ review = "unauthenticated"
    THEN NeedsResult("none", TRUE, review, 0, 0)
  ELSE LET parts == Split(currentToken, Dot)
       IN IF Len(parts) < 2 THEN NeedsResult("panic", FALSE, review, 0, 0)
          ELSE LET decoded == DecodeString(parts[2])
                   claims == Unmarshal(decoded.bytes)
                   age == now - claims.Iat * Second
                   lifetime == claims.Exp * Second - claims.Iat * Second
               IN IF decoded.err
                    THEN NeedsResult("decode", FALSE, review, 0, 0)
                  ELSE IF claims.err
                    THEN NeedsResult("unmarshal", FALSE, review, 0, 0)
                  ELSE NeedsResult("none", age > Quo(lifetime, 2), review,
                                   age, lifetime)

\* needsToken: review is the metal cluster's answer to the token review
\* ("error", "unauthenticated", "authenticated"), now is Now() in ticks
needsToken(currentToken, review, now) ==
  IF currentToken = EmptyString THEN NeedsResult("none", TRUE, "none", 0, 0)
  ELSE IF review = "error" THEN NeedsResult("review", FALSE, review, 0, 0)
  ELSE IF review = "unauthenticated"
    THEN NeedsResult("none", TRUE, review, 0, 0)
  ELSE LET parts == Split(currentToken, Dot)
       IN IF Len(parts) < 2 THEN NeedsResult("panic", FALSE, review, 0, 0)
          ELSE LET decoded == DecodeString(parts[2])
                   claims == Unmarshal(decoded.bytes)
                   age == now - claims.Iat * Second
                   lifetime == claims.Exp * Second - claims.Iat * Second
               IN IF decoded.err
                    THEN NeedsResult("decode", FALSE, review, 0, 0)
                  ELSE IF claims.err
                    THEN NeedsResult("unmarshal", FALSE, review, 0, 0)
                  ELSE NeedsResult("none", age > Quo(lifetime, 2), review,
                                   age, lifetime)

(***************************************************************************)
(* The Secret and the merge patch.                                         *)
(***************************************************************************)
NoData == << >>

\* string(secret.Data[key]): the empty string for an absent key
DataString(data, key) ==
  IF key \in DOMAIN data THEN data[key] ELSE EmptyString

\* a write of the whole data map as the reconciler holds it, not of the
\* difference to the snapshot
MergeFromNothing(original, modified) == modified

\* client.MergeFrom(unmodifiedSecret).Data(secret): the JSON merge patch from
\* the snapshot to the modified object; only Data is modified, and no key is
\* removed, so the patch is the data keys whose value differs.  MergeFrom has
\* no optimistic lock: the patch carries no resourceVersion.
MergeFrom(original, modified) ==
  [key \in {k \in DOMAIN modified :
              k \notin DOMAIN original \/ original[k] # modified[k]}
     |-> modified[key]]

\* a store that takes the patch for the whole data map
ApplyWhole(data, patch) == patch

\* the store applying a merge patch to the object it holds
ApplyPatch(data, patch) ==
  [key \in DOMAIN data \cup DOMAIN patch |->
     IF key \in DOMAIN patch THEN patch[key] ELSE data[key]]

\* secret.Data["token"], ["username"], ["namespace"] = ... (lines 115-117)
SetManaged(data, token, username, namespace) ==
  [key \in DOMAIN data \cup {"token", "username", "namespace"} |->
     IF key = "token" THEN token
     ELSE IF key = "username" THEN username
     ELSE IF key = "namespace" THEN namespace
     ELSE data[key]]

(***************************************************************************)
(* State.                                                                  *)
(***************************************************************************)
VARIABLES
  configFile,   \* the file at ConfigPath
  kubeSecret,   \* the kubeconfig Secret of the local cluster
  secret,       \* the Secret in the garden store
  clock,        \* Now(), in ticks
  mints,        \* tokens the metal cluster has issued
  edits,        \* external edits so far
  r,            \* the reconciler: where it is and its local variables
  parked        \* a second Secret key and its worker, while the first runs

vars == << configFile, kubeSecret, secret, clock, mints, edits, r, parked >>

\* a result that asks for the requeue whenever there is no error
OkRequeue(requeue) == [kind |-> "ok", requeueAfter |-> RequeueAfter]

Ok(requeue) == [kind |-> "ok", requeueAfter |-> requeue]
Failed == [kind |-> "err", requeueAfter |-> 0]
Panicked == [kind |-> "panic", requeueAfter |-> 0]
NoResult == [kind |-> "none", requeueAfter |-> 0]

\* one remote call, as the log of a reconciliation records it
Call(op, to, sa, exp) == [op |-> op, to |-> to, sa |-> sa, exp |-> exp]

Secret(annotated, annotation, labels, data, version) ==
  [exists |-> TRUE, annotated |-> annotated, annotation |-> annotation,
   labels |-> labels, data |-> data, resourceVersion |-> version]

\* var secret corev1.Secret
ZeroSecret ==
  [exists |-> FALSE, annotated |-> FALSE, annotation |-> EmptyString,
   labels |-> FALSE, data |-> NoData, resourceVersion |-> 0]

Idle ==
  [pc |-> "idle", result |-> NoResult, secret |-> ZeroSecret,
   parse |-> [err |-> FALSE, target |-> NoTarget], cfg |-> ZeroCluster,
   client |-> "local", needs |-> NeedsResult("none", FALSE, "none", 0, 0),
   token |-> EmptyString, patch |-> NoData, calls |-> << >>, requeueAt |-> -1,
   got |-> "none"]

\* a key and the worker the framework runs for it
Keyed(object, worker) == [secret |-> object, r |-> worker]

\* no second key
Nobody == Keyed(ZeroSecret, Idle)

(***************************************************************************)
(* Initial states.                                                         *)
(***************************************************************************)
Str2(a, b) == << a, b >>
Str3(a, b, c) == << a, b, c >>

\* annotation values: "a/b", "b/a", "a", "a/b/a", "", "/b", "a/"
AnnotationValues ==
  { Str3("a", "/", "b"), Str3("b", "/", "a"), << "a" >>,
    << "a", "/", "b", "/", "a" >>, EmptyString, Str2("/", "b"),
    Str2("a", "/") }

Entry(sa, exp, id) ==
  ClusterConfig(sa, SaNamespace, exp, id, EmptyString, EmptyString)

ConfigFiles ==
  { BrokenFile,
    ConfigFile(<< >>),
    ConfigFile(<< Entry(SaOne, 600, IdA) >>),
    ConfigFile(<< Entry(SaOne, 0, IdA) >>),
    ConfigFile(<< Entry(SaOne, -60, IdA) >>),
    ConfigFile(<< ClusterConfig(SaOne, SaNamespace, 600, IdA,
                                KubeSecretName, KubeSecretNamespace) >>),
    ConfigFile(<< Entry(SaOne, 600, IdA), Entry(SaTwo, 3600, IdA) >>),
    ConfigFile(<< Entry(SaTwo, 120, IdB), Entry(SaOne, 600, IdA) >>),
    ConfigFile(<< Entry(SaOne, 600, IdA), Entry(SaTwo, 600, EmptyString) >>),
    ConfigFile(<< ClusterConfig(SaOne, SaNamespace, 600, IdA,
                                KubeSecretName, EmptyString) >>) }

\* the kubeconfig Secret: missing, without the kubeconfig key, holding
\* something that is no kubeconfig, or usable
KubeSecretStates == {"absent", "nokey", "invalid", "ok"}

HasTargetSecret(file) ==
  \E i \in 1..Len(file.items) : file.items[i].TargetSecretName # EmptyString

Init ==
  /\ configFile \in ConfigFiles
  /\ kubeSecret \in
       IF HasTargetSecret(configFile) THEN KubeSecretStates ELSE {"absent"}
  /\ \E annotated \in BOOLEAN :
       \E annotation \in
            IF annotated THEN AnnotationValues ELSE {EmptyString} :
         secret = Secret(annotated, annotation, FALSE, NoData, 1)
  /\ clock = 0
  /\ mints = 0
  /\ edits = 0
  /\ r = Idle
  /\ parked = Nobody

(***************************************************************************)
(* Reconcile, lines 36-87: load the config, fetch the Secret, read and     *)
(* parse the annotation, find the cluster.                                 *)
(***************************************************************************)
\* the reconciliation returns: the framework queues the key again
\* RequeueAfter later when the result asks for it
Finish(state, result) ==
  [state EXCEPT !.pc = "idle", !.result = result,
                !.requeueAt = IF result.requeueAfter > 0
                                THEN clock + result.requeueAfter ELSE -1]

Return(result, calls) == Finish([r EXCEPT !.calls = calls], result)

\* a lookup that falls back to a default target when the annotation is absent
annotationOrDefault(object) ==
  [ok |-> TRUE,
   value |-> IF object.annotated THEN object.annotation
             ELSE << "a", "/", "b" >>]

\* autoprovisionValue, ok := secret.Annotations[AutoprovisonAnnotationKey]
annotationOf(object) ==
  [ok |-> object.annotated,
   value |-> IF object.annotated THEN object.annotation ELSE EmptyString]

\* an error of the Get that is not NotFound
KeepNotFound(err) == err

\* client.IgnoreNotFound: nil for a NotFound error, the error otherwise
IgnoreNotFound(err) == IF err = "notfound" THEN "nil" ELSE err

\* GardenClient.Get: the call fails (callOk = FALSE), or answers NotFound
\* for an object that is not in the store, or fills in the object
Get(object, callOk) ==
  IF ~callOk THEN "error"
  ELSE IF ~object.exists THEN "notfound"
  ELSE "nil"

ReconcileFetch(getOk) ==
  LET config == LoadConfig(configFile)
      get == << Call("get", "garden", EmptyString, 0) >>
      got == Get(secret, getOk)
      found == annotationOf(secret)
      parsed == parseAutoprovisionValue(found.value)
      cfgCluster == findCluster(config.Clusters, parsed.target.identity)
      fresh == [Idle EXCEPT !.calls = get, !.got = got]
  IN /\ r.pc = "idle"
     /\ UNCHANGED << configFile, kubeSecret, parked, secret, clock, mints,
                    edits >>
     /\ r' =
          IF config.err THEN Finish(Idle, Failed)
          ELSE IF got # "nil"
            THEN Finish(fresh, IF IgnoreNotFound(got) = "nil"
                                 THEN Ok(0) ELSE Failed)
          ELSE IF ~found.ok
            THEN Finish([fresh EXCEPT !.secret = secret], Ok(0))
          ELSE IF parsed.err
            THEN Finish([fresh EXCEPT !.secret = secret, !.parse = parsed],
                        Ok(0))
          ELSE IF cfgCluster.Identity = EmptyString
            THEN Finish([fresh EXCEPT !.secret = secret, !.parse = parsed],
                        Ok(0))
          ELSE [fresh EXCEPT
                  !.secret = secret, !.parse = parsed, !.cfg = cfgCluster,
                  !.pc = IF /\ cfgCluster.TargetSecretName # EmptyString
                            /\ cfgCluster.TargetSecretNamespace # EmptyString
                           THEN "resolve" ELSE "ensure"]

(***************************************************************************)
(* makeTargetClient, lines 71-81 and 206-221.                              *)
(***************************************************************************)
\* a resolver that falls back to the local client when the kubeconfig Secret
\* cannot be used
makeTargetClientOrLocal(state, getOk) ==
  IF ~getOk \/ state # "ok" THEN [err |-> FALSE, client |-> "local"]
  ELSE [err |-> FALSE, client |-> "target"]

makeTargetClient(state, getOk) ==
  IF ~getOk \/ state = "absent" THEN [err |-> TRUE, client |-> "local"]
  ELSE IF state = "nokey" THEN [err |-> TRUE, client |-> "local"]
  ELSE IF state = "invalid" THEN [err |-> TRUE, client |-> "local"]
  ELSE [err |-> FALSE, client |-> "target"]

ReconcileResolve(getOk) ==
  LET made == makeTargetClient(kubeSecret, getOk)
      calls == Append(r.calls,
                 Call("get", "local", r.cfg.TargetSecretName, 0))
  IN /\ r.pc = "resolve"
     /\ UNCHANGED << configFile, kubeSecret, parked, secret, clock, mints,
                    edits >>
     /\ r' = IF made.err THEN Return(Failed, calls)
             ELSE [r EXCEPT !.pc = "ensure", !.client = made.client,
                            !.calls = calls]

(***************************************************************************)
(* reconcileInternal up to ensureToken's needsToken, lines 95-110, 147-154 *)
(* and 172-204.  review is what the metal cluster answers.                 *)
(***************************************************************************)
ReviewAnswers == {"error", "unauthenticated", "authenticated"}

ReconcileEnsure(review) ==
  LET currentToken == DataString(r.secret.data, "token")
      needs == needsToken(currentToken, review, clock)
      calls == IF needs.review # "none"
                 THEN Append(r.calls, Call("review", r.client, EmptyString, 0))
                 ELSE r.calls
  IN /\ r.pc = "ensure"
     /\ UNCHANGED << configFile, kubeSecret, parked, secret, clock, mints,
                    edits >>
     /\ r' =
          IF needs.err = "panic"
            THEN [Return(Panicked, calls) EXCEPT !.needs = needs]
          ELSE IF needs.err # "none"
            THEN [Return(Failed, calls) EXCEPT !.needs = needs]
          ELSE IF needs.needs
            THEN [r EXCEPT !.pc = "mint", !.needs = needs, !.calls = calls]
          ELSE [r EXCEPT !.pc = "patch", !.needs = needs, !.calls = calls,
                         !.token = currentToken]

(***************************************************************************)
(* ensureToken's token request, lines 155-164.                             *)
(***************************************************************************)
\* the token the metal cluster issues: iat is its clock in seconds, exp the
\* requested expiration later, jti is new with every token
IssueToken(account, expirationSeconds, now, serial) ==
  Jwt(Claims(now \div Second, (now \div Second) + expirationSeconds,
             serial, account))

ReconcileMint(createOk) ==
  LET calls == Append(r.calls,
                 Call("tokenrequest", r.client, r.cfg.ServiceAccountName,
                      r.cfg.ExpirationSeconds))
  IN /\ r.pc = "mint"
     /\ createOk => mints < MaxMints
     /\ UNCHANGED << configFile, kubeSecret, parked, secret, clock, edits >>
     /\ IF createOk
          THEN /\ mints' = mints + 1
               /\ r' = [r EXCEPT
                          !.pc = "patch", !.calls = calls,
                          !.token = IssueToken(r.cfg.ServiceAccountName,
                                      r.cfg.ExpirationSeconds, clock, mints + 1)]
          ELSE /\ mints' = mints
               /\ r' = Return(Failed, calls)

(***************************************************************************)
(* reconcileInternal's patch and return, lines 115-123.                    *)
(***************************************************************************)
\* the namespace of the service account written where the target namespace
\* belongs
WrittenAccountNamespace(data, token, config, namespace) ==
  SetManaged(data, token, config.ServiceAccountName,
             config.ServiceAccountNamespace)

\* a write that keeps a username the Secret already has
WrittenKeepingName(data, token, config, namespace) ==
  SetManaged(data, token,
             IF "username" \in DOMAIN data
               THEN data["username"] ELSE config.ServiceAccountName,
             namespace)

Written(data, token, config, namespace) ==
  SetManaged(data, token, config.ServiceAccountName, namespace)

ReconcilePatch(patchOk) ==
  LET modified == Written(r.secret.data, r.token, r.cfg,
                          r.parse.target.namespace)
      patch == MergeFrom(r.secret.data, modified)
      calls == Append(r.calls, Call("patch", "garden", EmptyString, 0))
      patched == ApplyPatch(secret.data, patch)
  IN /\ r.pc = "patch"
     /\ UNCHANGED << configFile, kubeSecret, parked, clock, mints, edits >>
     /\ IF patchOk /\ secret.exists
          THEN /\ secret' =
                    [secret EXCEPT
                       !.data = patched,
                       !.resourceVersion =
                          IF patched # secret.data THEN @ + 1 ELSE @]
               /\ r' = [Return(Ok(RequeueAfter), calls) EXCEPT !.patch = patch]
          ELSE /\ secret' = secret
               /\ r' = [Return(Failed, calls) EXCEPT !.patch = patch]

(***************************************************************************)
(* The environment: other writers of the Secret, and time.                 *)
(***************************************************************************)
OldClaims == Claims(0, 600, 0, SaOne)

\* what another writer may put into data.token
EditTokens ==
  { EmptyString,
    << Blob(NoClaims) >>,
    << Blob(NoClaims), Dot, BadChars, Dot, Blob(NoClaims) >>,
    Jwt(NoClaims),
    << Blob(NoClaims), Dot, Blob(OldClaims) >>,
    Jwt(OldClaims) \o << Dot, Blob(NoClaims) >>,
    Jwt(OldClaims) }

EditLabels ==
  /\ secret.exists
  /\ edits < MaxEdits
  /\ secret' = [secret EXCEPT !.labels = ~@, !.resourceVersion = @ + 1]
  /\ edits' = edits + 1
  /\ UNCHANGED << configFile, kubeSecret, parked, clock, mints, r >>

EditToken(token) ==
  /\ secret.exists
  /\ edits < MaxEdits
  /\ DataString(secret.data, "token") # token
  /\ secret' = [secret EXCEPT
                  !.data = ApplyPatch(@, [key \in {"token"} |-> token]),
                  !.resourceVersion = @ + 1]
  /\ edits' = edits + 1
  /\ UNCHANGED << configFile, kubeSecret, parked, clock, mints, r >>

DeleteSecret ==
  /\ secret.exists
  /\ edits < MaxEdits
  /\ secret' = ZeroSecret
  /\ edits' = edits + 1
  /\ UNCHANGED << configFile, kubeSecret, parked, clock, mints, r >>

\* the clock advances in steps of five minutes: half the lifetime of a token
\* of 600 seconds
TickStep == 5 * Minute

Advance(d) ==
  /\ clock + d <= MaxClock
  /\ clock' = clock + d
  /\ UNCHANGED << configFile, kubeSecret, parked, secret, mints, edits, r >>

Tick == Advance(TickStep)

Fetch == \E getOk \in BOOLEAN : ReconcileFetch(getOk)
Resolve == \E getOk \in BOOLEAN : ReconcileResolve(getOk)
Ensure == \E review \in ReviewAnswers : ReconcileEnsure(review)
Mint == \E createOk \in BOOLEAN : ReconcileMint(createOk)
Patch == \E patchOk \in BOOLEAN : ReconcilePatch(patchOk)
Edit == \E token \in EditTokens : EditToken(token)

Next ==
  \/ Fetch
  \/ Resolve
  \/ Ensure
  \/ Mint
  \/ Patch
  \/ EditLabels
  \/ Edit
  \/ DeleteSecret
  \/ Tick

Spec == Init /\ [][Next]_vars

(***************************************************************************)
(* The freshness decision on its own: a stored token with claims iat = T0  *)
(* and exp = T0 + L, read at every clock value of a bounded range.         *)
(***************************************************************************)
\* iat of the stored token is at most this many seconds
MaxIat == 2
\* its lifetime is at most this many seconds
MaxLifetime == 5
\* the clock reads at most this many ticks
MaxNow == 12

TestConfig == ConfigFile(<< Entry(SaOne, 600, IdA) >>)

ManagedData(token) ==
  SetManaged(NoData, token, SaOne, << "b" >>)

InitNeeds ==
  /\ configFile = TestConfig
  /\ kubeSecret = "absent"
  /\ \E iat \in 0..MaxIat : \E lifetime \in 0..MaxLifetime :
       secret = Secret(TRUE, Str3("a", "/", "b"), FALSE,
                       ManagedData(Jwt(Claims(iat, iat + lifetime, 0, SaOne))),
                       1)
  /\ clock \in 0..MaxNow
  /\ mints = 0
  /\ edits = 0
  /\ r = Idle
  /\ parked = Nobody

NeedsFetch == ReconcileFetch(TRUE)
NeedsEnsure == \E review \in ReviewAnswers : ReconcileEnsure(review)

NextNeeds ==
  \/ NeedsFetch
  \/ NeedsEnsure

SpecNeeds == InitNeeds /\ [][NextNeeds]_vars

\* the claims of a token of three segments whose payload decodes
ClaimsOf(token) == token[3].c

StoredToken == DataString(secret.data, "token")
ReadToken == DataString(r.secret.data, "token")

\* C1: for a stored token with iat = T0 and exp = T0 + L that the token
\* review reports authenticated, needsToken returns false for every clock
\* value in [T0, T0 + L/2] and true for every clock value after T0 + L/2.
C1_HalfLifetime ==
  r.needs.review = "authenticated" =>
    LET start == ClaimsOf(ReadToken).iat * Second
        length == (ClaimsOf(ReadToken).exp - ClaimsOf(ReadToken).iat) * Second
    IN /\ r.needs.err = "none"
       /\ (start <= clock /\ 2 * (clock - start) <= length) => ~r.needs.needs
       /\ 2 * (clock - start) > length => r.needs.needs

\* an authenticated token read exactly at half of a lifetime of an odd
\* number of seconds is kept
C1_Witness ==
  /\ r.needs.review = "authenticated"
  /\ r.pc = "patch"
  /\ ClaimsOf(ReadToken).exp - ClaimsOf(ReadToken).iat = 3
  /\ 2 * (clock - ClaimsOf(ReadToken).iat * Second) = 3 * Second

(***************************************************************************)
(* What the claims speak of.                                               *)
(***************************************************************************)
Returned == r.pc = "idle" /\ r.result.kind # "none"

Called(state, op) == \E i \in 1..Len(state.calls) : state.calls[i].op = op

Slashes(value) == {i \in 1..Len(value) : value[i] = Slash}

\* <identity>/<namespace>: one slash, something on either side of it
WellFormedAnnotation(value) ==
  /\ Cardinality(Slashes(value)) = 1
  /\ value[1] # Slash
  /\ value[Len(value)] # Slash

SlashAt(value) == CHOOSE i \in Slashes(value) : TRUE
IdentityPart(value) == SubSeq(value, 1, SlashAt(value) - 1)
NamespacePart(value) == SubSeq(value, SlashAt(value) + 1, Len(value))

\* three segments, the second one a payload holding claims
HoldsClaims(token) ==
  /\ Len(token) = 5
  /\ token[1].k = "b64" /\ token[2] = Dot /\ token[3].k = "b64"
  /\ token[4] = Dot /\ token[5].k = "b64"
  /\ token[3].c.json

\* now > iat + (exp - iat) / 2
PastHalf(token, now) ==
  2 * (now - ClaimsOf(token).iat * Second)
    > (ClaimsOf(token).exp - ClaimsOf(token).iat) * Second

\* the Secret as a reconciliation under this config and annotation left it
Managed(state) ==
  /\ HoldsClaims(DataString(state.secret.data, "token"))
  /\ {"username", "namespace"} \subseteq DOMAIN state.secret.data
  /\ state.secret.data["username"] = state.cfg.ServiceAccountName
  /\ state.secret.data["namespace"] = state.parse.target.namespace

\* C2: a Secret annotated <identity>/<namespace>, the identity matching a
\* config entry, with no token: a reconciliation whose remote calls all
\* succeed ends with data.token the newly minted non-empty token,
\* data.username the configured service-account name, data.namespace the
\* annotation's namespace part, and a requeue after 2 minutes.
C2_FirstToken ==
  [][(/\ r.pc = "patch" /\ r'.pc = "idle" /\ r'.result.kind = "ok"
      /\ WellFormedAnnotation(r.secret.annotation)
      /\ ReadToken = EmptyString)
     => /\ Called(r', "tokenrequest")
        /\ r.token # EmptyString
        /\ HoldsClaims(r.token) /\ ClaimsOf(r.token).jti = mints
        /\ DataString(secret'.data, "token") = r.token
        /\ \E i \in 1..Len(configFile.items) :
             /\ configFile.items[i].Identity
                  = IdentityPart(r.secret.annotation)
             /\ DataString(secret'.data, "username")
                  = configFile.items[i].ServiceAccountName
        /\ DataString(secret'.data, "namespace")
             = NamespacePart(r.secret.annotation)
        /\ r'.result.requeueAfter = 2 * 60 * Second]_vars

C2_Witness ==
  /\ Returned /\ r.result = Ok(2 * 60 * Second)
  /\ ReadToken = EmptyString
  /\ r.secret.annotation = << "a", "/", "b" >>
  /\ Called(r, "tokenrequest")
  /\ StoredToken = r.token /\ r.token # EmptyString
  /\ secret.data["username"] = SaOne
  /\ secret.data["namespace"] = << "b" >>

\* C3: a managed Secret holding a token, the clock past half of the token's
\* lifetime: the reconciliation does not keep the token, and when it
\* succeeds data.token is a newly minted token different from the old one
\* while data.username and data.namespace keep their values.
C3_Rotation ==
  [][/\ (/\ r.pc = "ensure" /\ r' # r
         /\ HoldsClaims(ReadToken) /\ PastHalf(ReadToken, clock))
        => r'.pc # "patch"
     /\ (/\ r.pc = "patch" /\ r'.pc = "idle" /\ r'.result.kind = "ok"
         /\ HoldsClaims(ReadToken) /\ Called(r, "tokenrequest"))
        => /\ DataString(secret'.data, "token") = r.token
           /\ r.token # ReadToken /\ r.token # StoredToken
           /\ Managed(r) =>
                /\ secret'.data["username"] = secret.data["username"]
                /\ secret'.data["namespace"] = secret.data["namespace"]
                /\ secret'.data["username"] = r.secret.data["username"]
                /\ secret'.data["namespace"] = r.secret.data["namespace"]
    ]_vars

C3_Witness ==
  /\ Returned /\ r.result.kind = "ok"
  /\ Managed(r)
  /\ r.needs.review = "authenticated" /\ r.needs.needs
  /\ 2 * r.needs.age > r.needs.lifetime
  /\ Called(r, "tokenrequest")
  /\ StoredToken = r.token /\ r.token # ReadToken
  /\ secret.data["username"] = r.secret.data["username"]
  /\ secret.data["namespace"] = r.secret.data["namespace"]

\* C5: a Secret without the autoprovision annotation: every reconciliation
\* (the config loads, the Secret is fetched) leaves the Secret as it is,
\* issues no token review, no token request and no patch, and returns
\* without error; the reconciler writes the Secret only when the object it
\* read carried the annotation.
C5_Unannotated ==
  [][/\ (/\ r.pc = "idle" /\ r' # r
         /\ r'.secret.exists /\ ~r'.secret.annotated)
        => /\ secret' = secret
           /\ r'.pc = "idle" /\ r'.result = Ok(0)
           /\ ~Called(r', "review") /\ ~Called(r', "tokenrequest")
           /\ ~Called(r', "patch")
     /\ (r' # r /\ secret' # secret) => r.secret.annotated
    ]_vars

C5_Witness ==
  /\ Returned /\ r.result = Ok(0)
  /\ r.secret.exists /\ ~r.secret.annotated
  /\ secret = r.secret /\ secret.data = NoData
  /\ r.calls = << Call("get", "garden", EmptyString, 0) >>
  /\ ~LoadConfig(configFile).err

\* C6: a Secret whose annotation value is malformed (not exactly one "/"
\* between two non-empty parts): the reconciliation leaves the Secret's data
\* unchanged, issues no token request and returns no error.
C6_MalformedIgnored ==
  (/\ r.secret.exists /\ r.secret.annotated
   /\ ~WellFormedAnnotation(r.secret.annotation))
  => /\ ~Called(r, "tokenrequest") /\ ~Called(r, "patch")
     /\ r.patch = NoData
     /\ Returned => r.result.kind = "ok"

\* C7: parseAutoprovisionValue succeeds exactly when the value is two
\* non-empty segments around one "/", and then returns them left to right
\* as identity and namespace.
C7_ParseTwoNonEmpty ==
  (r.secret.exists /\ r.secret.annotated)
  => /\ ~r.parse.err <=> WellFormedAnnotation(r.secret.annotation)
     /\ ~r.parse.err =>
          /\ r.parse.target.identity = IdentityPart(r.secret.annotation)
          /\ r.parse.target.namespace = NamespacePart(r.secret.annotation)

\* C8: a config entry with expirationSeconds zero or negative: the token
\* request of a reconciliation minting for that entry asks for 3600 seconds.
C8_DefaultExpiration ==
  \A i \in 1..Len(r.calls) : \A j \in 1..Len(configFile.items) :
    (/\ r.calls[i].op = "tokenrequest"
     /\ WellFormedAnnotation(r.secret.annotation)
     /\ configFile.items[j].Identity = r.parse.target.identity
     /\ configFile.items[j].ExpirationSeconds <= 0)
    => r.calls[i].exp = 3600

\* the stored token is not empty and its claims cannot be decoded: not three
\* segments, a second segment that is no base64url, or no JSON in it
Undecodable(token) ==
  /\ token # EmptyString
  /\ \/ Len(Split(token, Dot)) # 3
     \/ \E i \in 1..Len(Split(token, Dot)[2]) :
          Split(token, Dot)[2][i].k = "bad"
     \/ Len(Split(token, Dot)[2]) # 1
     \/ ~Split(token, Dot)[2][1].c.json

PayloadUndecodable(token) ==
  /\ token # EmptyString
  /\ \/ Len(Split(token, Dot)) < 2
     \/ \E i \in 1..Len(Split(token, Dot)[2]) :
          Split(token, Dot)[2][i].k = "bad"
     \/ Len(Split(token, Dot)[2]) # 1
     \/ ~Split(token, Dot)[2][1].c.json

ChangedSinceRead == secret.resourceVersion # r.secret.resourceVersion

TimedConfigFiles ==
  { ConfigFile(<< Entry(SaOne, seconds, IdA) >>) :
      seconds \in {-60, 0, 60, 240, 241, 300, 600} }

InitTimed ==
  /\ configFile \in TimedConfigFiles
  /\ kubeSecret = "absent"
  /\ secret = Secret(TRUE, Str3("a", "/", "b"), FALSE, NoData, 1)
  /\ clock = 0
  /\ mints = 0
  /\ edits = 0
  /\ r = Idle
  /\ parked = Nobody

\* the key is queued at creation and again when a requeue is due
Due == r.result.kind = "none" \/ r.requeueAt = clock

Expired(token, now) == ClaimsOf(token).exp * Second <= now

TimedFetch == Due /\ ReconcileFetch(TRUE)

TimedEnsure ==
  ReconcileEnsure(IF ReadToken # EmptyString /\ Expired(ReadToken, clock)
                    THEN "unauthenticated" ELSE "authenticated")

TimedMint == ReconcileMint(TRUE)

TimedPatch == ReconcilePatch(TRUE)

TimedTick == r.pc = "idle" /\ ~Due /\ Advance(Second)

NextTimed ==
  \/ TimedFetch
  \/ TimedEnsure
  \/ TimedMint
  \/ TimedPatch
  \/ TimedTick

SpecTimed == InitTimed /\ [][NextTimed]_vars

\* expirationSeconds of the entry the Secret's identity selects
ConfiguredExpiration ==
  configFile.items[CHOOSE i \in 1..Len(configFile.items) :
                     configFile.items[i].Identity = IdA].ExpirationSeconds

\* the stored token's exp is later than the clock
StoredTokenValid ==
  StoredToken # EmptyString => ~Expired(StoredToken, clock)

\* C4 as claimed: once the first reconciliation has succeeded, with every
\* requeued reconciliation running and succeeding and tokens carrying the
\* configured expiration, the stored token is never expired, for every
\* config LoadConfig accepts (here: for those of them with a positive
\* expirationSeconds, which the token request carries as configured).
C4_NeverExpired ==
  (~LoadConfig(configFile).err /\ ConfiguredExpiration > 0)
  => StoredTokenValid

\* C4 as amended: the same, for every accepted config whose expirationSeconds
\* is more than 240, twice the requeue delay.
C4_NeverExpiredAbove240 ==
  (~LoadConfig(configFile).err /\ ConfiguredExpiration > 2 * 2 * 60)
  => StoredTokenValid

\* a token of 241 seconds replaced at the second requeue, one second before
\* its exp
C4_Witness ==
  /\ ConfiguredExpiration = 241
  /\ clock = 240 * Second
  /\ Returned /\ r.result.kind = "ok"
  /\ Called(r, "tokenrequest")
  /\ HoldsClaims(ReadToken) /\ ClaimsOf(ReadToken).exp = 241
  /\ StoredToken = r.token /\ ClaimsOf(StoredToken).iat = 240

(***************************************************************************)
(* Other writers of the Secret between a reconciliation's read and its     *)
(* patch: labels, the annotation, and data keys the reconciler does not    *)
(* manage.                                                                 *)
(***************************************************************************)
ManagedKeys == {"token", "username", "namespace"}

\* a data key of another owner, and the values it takes
OtherKey == "ca.crt"
OtherValues == { << "x" >>, << "y" >> }

WithOther(data, value) ==
  [key \in DOMAIN data \cup {OtherKey} |->
     IF key = OtherKey THEN value ELSE data[key]]

WithoutOther(data) ==
  [key \in DOMAIN data \ {OtherKey} |-> data[key]]

InitEdits ==
  /\ configFile = TestConfig
  /\ kubeSecret = "absent"
  /\ \E data \in { NoData, WithOther(NoData, << "x" >>),
                    ManagedData(Jwt(OldClaims)),
                    WithOther(ManagedData(Jwt(OldClaims)), << "x" >>) } :
       secret = Secret(TRUE, Str3("a", "/", "b"), FALSE, data, 1)
  /\ clock \in {0, MaxClock}
  /\ mints = 0
  /\ edits = 0
  /\ r = Idle
  /\ parked = Nobody

\* another writer sets, changes or removes the annotation
EditAnnotation(annotated, value) ==
  /\ secret.exists
  /\ edits < MaxEdits
  /\ << annotated, value >> # << secret.annotated, secret.annotation >>
  /\ secret' = [secret EXCEPT !.annotated = annotated, !.annotation = value,
                              !.resourceVersion = @ + 1]
  /\ edits' = edits + 1
  /\ UNCHANGED << configFile, kubeSecret, parked, clock, mints, r >>

\* another writer sets or changes a data key of its own
EditData(value) ==
  /\ secret.exists
  /\ edits < MaxEdits
  /\ DataString(secret.data, OtherKey) # value
  /\ secret' = [secret EXCEPT !.data = WithOther(@, value),
                              !.resourceVersion = @ + 1]
  /\ edits' = edits + 1
  /\ UNCHANGED << configFile, kubeSecret, parked, clock, mints, r >>

\* another writer removes its data key
RemoveData ==
  /\ secret.exists
  /\ edits < MaxEdits
  /\ OtherKey \in DOMAIN secret.data
  /\ secret' = [secret EXCEPT !.data = WithoutOther(@),
                              !.resourceVersion = @ + 1]
  /\ edits' = edits + 1
  /\ UNCHANGED << configFile, kubeSecret, parked, clock, mints, r >>

Annotate ==
  \/ EditAnnotation(FALSE, EmptyString)
  \/ \E value \in AnnotationValues : EditAnnotation(TRUE, value)

EditOther == \E value \in OtherValues : EditData(value)

NextEdits ==
  \/ Fetch
  \/ Ensure
  \/ Mint
  \/ Patch
  \/ EditLabels
  \/ Annotate
  \/ EditOther
  \/ RemoveData
  \/ DeleteSecret

SpecEdits == InitEdits /\ [][NextEdits]_vars

\* C11: what another writer changed in the Secret outside data.token,
\* data.username and data.namespace (labels, the annotation, other data
\* keys) between a reconciliation's read and its patch is still there after
\* the patch: the patch holds managed data keys only, a patch that goes
\* through leaves labels, annotation and every other data key as the store
\* held them, and a patch that fails leaves the whole Secret.
C11_UnrelatedEditsKept ==
  [][(r.pc = "patch" /\ r'.pc = "idle")
     => /\ DOMAIN r'.patch \subseteq ManagedKeys
        /\ r'.result.kind = "ok" =>
             /\ secret'.exists
             /\ secret'.labels = secret.labels
             /\ secret'.annotated = secret.annotated
             /\ secret'.annotation = secret.annotation
             /\ DOMAIN secret'.data \ ManagedKeys
                  = DOMAIN secret.data \ ManagedKeys
             /\ \A key \in DOMAIN secret.data \ ManagedKeys :
                  secret'.data[key] = secret.data[key]
        /\ r'.result.kind # "ok" => secret' = secret]_vars

\* another writer changed its data key after the read, the patch went
\* through, and the store holds both the other writer's value and the token
C11_Witness ==
  /\ Returned /\ r.result.kind = "ok"
  /\ Called(r, "patch")
  /\ OtherKey \in DOMAIN r.secret.data
  /\ r.secret.data[OtherKey] = << "x" >>
  /\ secret.exists /\ OtherKey \in DOMAIN secret.data
  /\ secret.data[OtherKey] = << "y" >>
  /\ StoredToken = r.token /\ r.token # ReadToken

\* C12: needsToken returns true for the empty token string whatever the
\* metal cluster would answer and through whichever client, and asks for no
\* token review: the reconciliation goes on to the token request.
C12_EmptyNeedsToken ==
  [][(r.pc = "ensure" /\ r' # r /\ ReadToken = EmptyString)
     => /\ r'.needs.err = "none" /\ r'.needs.needs
        /\ r'.needs.review = "none"
        /\ r'.calls = r.calls /\ ~Called(r', "review")
        /\ r'.pc = "mint"]_vars

\* a Secret without a token, to be served through the client of the
\* kubeconfig Secret: the token request is next and no review was asked for
C12_Witness ==
  /\ r.pc = "mint"
  /\ ReadToken = EmptyString
  /\ r.client = "target"
  /\ r.needs.needs /\ r.needs.review = "none"
  /\ ~Called(r, "review")

\* C13: for every non-empty token that the token review reports not
\* authenticated, needsToken returns true and no error, whatever the token
\* holds, also when its claims could not be decoded; the token review was
\* the one call it made.
C13_UnauthenticatedNeedsToken ==
  [][(/\ r.pc = "ensure" /\ r' # r /\ ReadToken # EmptyString
      /\ r'.needs.review = "unauthenticated")
     => /\ r'.needs.err = "none" /\ r'.needs.needs
        /\ r'.calls = Append(r.calls, Call("review", r.client, EmptyString, 0))
        /\ r'.pc = "mint"]_vars

\* a token of one segment, reported not authenticated: the token request is
\* next
C13_Witness ==
  /\ r.pc = "mint"
  /\ ReadToken = << Blob(NoClaims) >>
  /\ r.needs.review = "unauthenticated"
  /\ r.needs.needs /\ r.needs.err = "none"

\* C14: a reconciliation that gets through fetch, lookup, freshness
\* evaluation and patch without error returns a requeue after exactly 2
\* minutes, when it minted a token and when it kept the one it read (the key
\* is queued again that much later); a reconciliation that returns an error
\* returns no requeue-after.
C14_RequeueTwoMinutes ==
  [][/\ (r.pc = "patch" /\ r'.pc = "idle" /\ r'.result.kind = "ok")
        => /\ r'.result.requeueAfter = 2 * 60 * Second
           /\ r'.requeueAt = clock + 2 * 60 * Second
     /\ (r' # r /\ r'.pc = "idle" /\ r'.result.kind = "err")
        => /\ r'.result.requeueAfter = 0
           /\ r'.requeueAt = -1
    ]_vars

\* a token the review reports authenticated, read in the first half of its
\* lifetime, is kept and patched back: requeue after 2 minutes
C14_Witness ==
  /\ Returned /\ r.result.kind = "ok"
  /\ Called(r, "review") /\ ~Called(r, "tokenrequest") /\ Called(r, "patch")
  /\ r.token = ReadToken /\ HoldsClaims(r.token)
  /\ r.result.requeueAfter = 2 * 60 * Second
  /\ r.requeueAt = clock + 2 * 60 * Second

\* the reconciliation ended before the object was taken for one to manage:
\* the Secret is gone, has no annotation, a malformed one, or names an
\* identity the config does not have
EndedEarly(state) ==
  \/ state.got = "notfound"
  \/ /\ state.secret.exists
     /\ \/ ~state.secret.annotated
        \/ state.parse.err
        \/ state.cfg = ZeroCluster

\* C15 as claimed: every reconciliation that returns without error returns
\* a delayed requeue, also one that ends at a missing annotation, a
\* malformed annotation or no matching config entry.
C15_AlwaysRequeue ==
  (Returned /\ r.result.kind = "ok") => r.result.requeueAfter > 0

\* C15 as amended: a reconciliation that returns without error returns the
\* requeue after 2 minutes exactly when it got as far as a successful patch;
\* one that ends at a Secret that is gone, a missing annotation, a malformed
\* annotation or no matching config entry returns no requeue and made no
\* call but the Get.
C15_RequeueOnlyAfterPatch ==
  (Returned /\ r.result.kind = "ok")
  => /\ r.result.requeueAfter \in {0, 2 * 60 * Second}
     /\ r.result.requeueAfter = 2 * 60 * Second <=> Called(r, "patch")
     /\ r.result.requeueAfter = 0 <=> EndedEarly(r)
     /\ EndedEarly(r) =>
          /\ r.calls = << Call("get", "garden", EmptyString, 0) >>
          /\ r.requeueAt = -1

\* a Secret annotated "a" (no slash): no error and no requeue
C15_Witness ==
  /\ Returned /\ r.result.kind = "ok"
  /\ r.secret.annotated /\ r.secret.annotation = << "a" >>
  /\ r.parse.err
  /\ r.result.requeueAfter = 0 /\ r.requeueAt = -1

(***************************************************************************)
(* LoadConfig on its own: config files of up to MaxItems entries, every    *)
(* field of an entry empty or set.                                         *)
(***************************************************************************)
\* entries of a config file
MaxItems == 2

OrEmpty(value) == {EmptyString, value}

AnyEntries ==
  { ClusterConfig(sa, sans, exp, id, tname, tns) :
      sa \in OrEmpty(SaOne), sans \in OrEmpty(SaNamespace),
      exp \in {0, 600}, id \in OrEmpty(IdA),
      tname \in OrEmpty(KubeSecretName),
      tns \in OrEmpty(KubeSecretNamespace) }

AnyConfigFiles ==
  {BrokenFile}
    \cup { ConfigFile(items) :
             items \in UNION { [1..n -> AnyEntries] : n \in 0..MaxItems } }

InitConfig ==
  /\ configFile \in AnyConfigFiles
  /\ kubeSecret = "ok"
  /\ secret = Secret(TRUE, Str3("a", "/", "b"), FALSE, NoData, 1)
  /\ clock = 0
  /\ mints = 0
  /\ edits = 0
  /\ r = Idle
  /\ parked = Nobody

NextConfig ==
  \/ Fetch
  \/ Resolve
  \/ Ensure
  \/ Mint
  \/ Patch

SpecConfig == InitConfig /\ [][NextConfig]_vars

\* an entry LoadConfig has to refuse
InvalidEntry(entry) ==
  \/ entry.Identity = EmptyString
  \/ entry.ServiceAccountName = EmptyString
  \/ entry.ServiceAccountNamespace = EmptyString
  \/ /\ entry.TargetSecretName # EmptyString
     /\ entry.TargetSecretNamespace = EmptyString
  \/ /\ entry.TargetSecretName = EmptyString
     /\ entry.TargetSecretNamespace # EmptyString

InvalidItems(items) ==
  \/ Len(items) = 0
  \/ \E i \in 1..Len(items) : InvalidEntry(items[i])

\* C16: LoadConfig returns an error and no configuration when the items
\* list is empty or missing, when an entry has an empty identity,
\* serviceAccountName or serviceAccountNamespace, or when an entry sets
\* exactly one of targetSecretName and targetSecretNamespace; every other
\* well-formed file is accepted, with its entries in the file's order, and
\* the reconciliation goes on to fetch the Secret.
C16_LoadConfigValidation ==
  /\ ~configFile.readable => LoadConfig(configFile).err
  /\ configFile.readable =>
       (LoadConfig(configFile).err <=> InvalidItems(configFile.items))
  /\ LoadConfig(configFile).err => LoadConfig(configFile).Clusters = << >>
  /\ ~LoadConfig(configFile).err =>
       /\ Len(LoadConfig(configFile).Clusters) = Len(configFile.items)
       /\ \A i \in 1..Len(configFile.items) :
            /\ LoadConfig(configFile).Clusters[i].Identity
                 = configFile.items[i].Identity
            /\ LoadConfig(configFile).Clusters[i].ServiceAccountName
                 = configFile.items[i].ServiceAccountName
            /\ LoadConfig(configFile).Clusters[i].TargetSecretName
                 = configFile.items[i].TargetSecretName
  /\ (r.pc # "idle" \/ Returned) =>
       ((r.result.kind = "err" /\ r.calls = << >>)
          <=> (~configFile.readable \/ InvalidItems(configFile.items)))

\* targetSecretName set and targetSecretNamespace empty in an entry that is
\* complete otherwise: the reconciliation returns the error of LoadConfig
C16_Witness ==
  /\ Returned /\ r.result.kind = "err" /\ r.calls = << >>
  /\ configFile.readable
  /\ configFile.items
       = << ClusterConfig(SaOne, SaNamespace, 600, IdA,
                          KubeSecretName, EmptyString) >>

\* no entry of the config file has this identity
NoEntryFor(identity) ==
  \A i \in 1..Len(configFile.items) : configFile.items[i].Identity # identity

\* C17: a Secret whose annotation parses while no config entry has the
\* parsed identity: the reconciliation returns without error and without
\* requeue, asks for no token review and no token request, and leaves the
\* Secret as it is; and a reconciliation that ends because the object is not
\* one to manage (no annotation, a malformed one, no matching entry) never
\* returns an error.
C17_NoMatchingConfig ==
  [][/\ (/\ r.pc = "idle" /\ r' # r
         /\ r'.secret.exists /\ r'.secret.annotated /\ ~r'.parse.err
         /\ NoEntryFor(r'.parse.target.identity))
        => /\ r'.pc = "idle"
           /\ r'.result.kind = "ok" /\ r'.result.requeueAfter = 0
           /\ r'.requeueAt = -1
           /\ r'.calls = << Call("get", "garden", EmptyString, 0) >>
           /\ r'.patch = NoData
           /\ secret' = secret
     /\ (r' # r /\ r'.pc = "idle" /\ r'.secret.exists /\ EndedEarly(r'))
        => r'.result.kind = "ok"
    ]_vars

\* a Secret annotated "b/a" under a config that has identity "a" only
C17_Witness ==
  /\ Returned /\ r.result.kind = "ok" /\ r.result.requeueAfter = 0
  /\ r.secret.annotated /\ r.secret.annotation = << "b", "/", "a" >>
  /\ r.parse.target.identity = IdB
  /\ configFile = ConfigFile(<< Entry(SaOne, 600, IdA) >>)
  /\ secret = r.secret
  /\ r.calls = << Call("get", "garden", EmptyString, 0) >>

LastCall(state) == state.calls[Len(state.calls)]

\* C18: a remote call of a reconciliation that fails (the Get of the
\* kubeconfig Secret, the token review, the token request, the patch) makes
\* the reconciliation return the error with that call as its last one and
\* without a requeue; the Secret in the store stays as it is (as it was read,
\* when nobody else wrote it); a failed token review or token request is
\* never followed by a patch; and the next reconciliation starts from a
\* read of its own, taking nothing over.
C18_RemoteFailureAborts ==
  [][/\ (r.pc = "resolve" /\ r' # r)
        => IF r'.pc = "idle"
             THEN /\ r'.result.kind = "err"
                  /\ LastCall(r') = Call("get", "local", KubeSecretName, 0)
                  /\ ~Called(r', "review") /\ ~Called(r', "tokenrequest")
                  /\ ~Called(r', "patch")
             ELSE kubeSecret = "ok" /\ r'.pc = "ensure"
     /\ (r.pc = "ensure" /\ r' # r /\ r'.needs.review = "error")
        => /\ r'.pc = "idle" /\ r'.result.kind = "err"
           /\ LastCall(r').op = "review"
           /\ ~Called(r', "tokenrequest") /\ ~Called(r', "patch")
     /\ (r.pc = "mint" /\ r' # r /\ mints' = mints)
        => /\ r'.pc = "idle" /\ r'.result.kind = "err"
           /\ LastCall(r').op = "tokenrequest"
           /\ ~Called(r', "patch")
     /\ (r.pc = "patch" /\ r' # r /\ r'.result.kind = "err")
        => LastCall(r').op = "patch"
     /\ (r' # r /\ r'.pc = "idle" /\ r'.result.kind = "err")
        => /\ r'.result.requeueAfter = 0 /\ r'.requeueAt = -1
           /\ secret' = secret
           /\ (r.pc # "idle" /\ ~ChangedSinceRead) => secret' = r.secret
     /\ (r.pc = "idle" /\ r' # r)
        => /\ Len(r'.calls) <= 1
           /\ r'.secret \in {secret, ZeroSecret}
           /\ r'.token = EmptyString /\ r'.patch = NoData
           /\ r'.needs = Idle.needs
    ]_vars

\* the token review of a stored token failed: the error is returned, no
\* token request and no patch were issued, the Secret is as it was read
C18_Witness ==
  /\ Returned /\ r.result.kind = "err"
  /\ r.needs.err = "review"
  /\ HoldsClaims(ReadToken)
  /\ LastCall(r).op = "review"
  /\ ~Called(r, "tokenrequest") /\ ~Called(r, "patch")
  /\ secret = r.secret

\* C19: when LoadConfig fails, the reconciliation returns the error before
\* it fetches the Secret and changes nothing, whatever the Secret is
\* (annotated or not, there or gone); when the config loads and the Get
\* answers NotFound, the reconciliation returns without error and without
\* requeue and made no call to the cluster that issues the tokens.
C19_ConfigErrorAndNotFound ==
  [][(r.pc = "idle" /\ r' # r)
     => /\ LoadConfig(configFile).err
            => /\ r'.pc = "idle" /\ r'.result.kind = "err"
               /\ r'.result.requeueAfter = 0 /\ r'.requeueAt = -1
               /\ r'.calls = << >> /\ r'.got = "none"
               /\ ~r'.secret.exists
               /\ secret' = secret
        /\ (~LoadConfig(configFile).err /\ ~secret.exists)
            => r'.got \in {"notfound", "error"}
        /\ (~LoadConfig(configFile).err /\ r'.got = "notfound")
            => /\ ~secret.exists
               /\ r'.pc = "idle" /\ r'.result.kind = "ok"
               /\ r'.result.requeueAfter = 0 /\ r'.requeueAt = -1
               /\ r'.calls = << Call("get", "garden", EmptyString, 0) >>
               /\ secret' = secret
    ]_vars

\* the Secret was deleted, the config is fine: the reconciliation of its key
\* returns no error and no requeue
C19_Witness ==
  /\ Returned /\ r.result.kind = "ok" /\ r.result.requeueAfter = 0
  /\ r.got = "notfound"
  /\ ~secret.exists /\ edits = 1
  /\ ~LoadConfig(configFile).err
  /\ r.calls = << Call("get", "garden", EmptyString, 0) >>

\* the matched entry names a kubeconfig Secret
HasTarget(entry) ==
  entry.TargetSecretName # EmptyString
    /\ entry.TargetSecretNamespace # EmptyString

\* C20: when the matched config entry has target-secret coordinates, the
\* kubeconfig Secret is read through the local client and token review and
\* token request go to the client built from its kubeconfig field; when
\* that Secret or its kubeconfig key is missing the reconciliation returns
\* an error with no token request and no patch; when the entry has no
\* target-secret coordinates, token review and token request go to the
\* local client and no kubeconfig Secret is read.
C20_ClientResolution ==
  (r.secret.exists /\ r.cfg # ZeroCluster)
  => /\ \A i \in 1..Len(r.calls) :
          r.calls[i].op \in {"review", "tokenrequest"}
          => /\ r.calls[i].to = IF HasTarget(r.cfg) THEN "target" ELSE "local"
             /\ HasTarget(r.cfg)
                  => /\ kubeSecret = "ok"
                     /\ i > 2
                     /\ r.calls[2] = Call("get", "local", KubeSecretName, 0)
     /\ ~HasTarget(r.cfg)
          => /\ r.client = "local"
             /\ \A i \in 1..Len(r.calls) : r.calls[i].to # "target"
             /\ \A i \in 1..Len(r.calls) :
                  r.calls[i] # Call("get", "local", KubeSecretName, 0)
     /\ (HasTarget(r.cfg) /\ kubeSecret \in {"absent", "nokey"}
          /\ r.pc # "resolve")
          => /\ r.pc = "idle" /\ r.result.kind = "err"
             /\ ~Called(r, "review") /\ ~Called(r, "tokenrequest")
             /\ ~Called(r, "patch")
             /\ r.patch = NoData

\* a first token issued through the client of the kubeconfig Secret
C20_Witness ==
  /\ Returned /\ r.result.kind = "ok"
  /\ HasTarget(r.cfg) /\ kubeSecret = "ok"
  /\ r.calls = << Call("get", "garden", EmptyString, 0),
                  Call("get", "local", KubeSecretName, 0),
                  Call("tokenrequest", "target", SaOne, 600),
                  Call("patch", "garden", EmptyString, 0) >>
  /\ StoredToken = r.token

(***************************************************************************)
(* A deployment that is rewired between and during reconciliations: the    *)
(* config file is rewritten, the annotation is changed, and another writer *)
(* sets data.username.                                                     *)
(***************************************************************************)
Targeted(sa, exp, id) ==
  ClusterConfig(sa, SaNamespace, exp, id, KubeSecretName, KubeSecretNamespace)

RewireConfigFiles ==
  { ConfigFile(<< Entry(SaOne, 600, IdA) >>),
    ConfigFile(<< Entry(SaTwo, 600, IdA) >>),
    ConfigFile(<< Entry(SaOne, 600, IdA), Targeted(SaTwo, 3600, IdA) >>),
    ConfigFile(<< Targeted(SaTwo, 3600, IdA), Entry(SaOne, 600, IdA) >>),
    ConfigFile(<< Entry(SaTwo, 120, IdB), Entry(SaOne, 600, IdA) >>) }

InitRewire ==
  /\ configFile \in RewireConfigFiles
  /\ kubeSecret = "ok"
  /\ \E annotation \in {Str3("a", "/", "b"), Str3("b", "/", "a")} :
       secret = Secret(TRUE, annotation, FALSE, NoData, 1)
  /\ clock = 0
  /\ mints = 0
  /\ edits = 0
  /\ r = Idle
  /\ parked = Nobody

\* the operator rewrites the config file
WriteConfig(file) ==
  /\ edits < MaxEdits
  /\ file # configFile
  /\ configFile' = file
  /\ edits' = edits + 1
  /\ UNCHANGED << kubeSecret, parked, secret, clock, mints, r >>

\* what another writer puts into data.username
ForeignName == << "z" >>

\* another writer sets data.username
EditUsername(value) ==
  /\ secret.exists
  /\ edits < MaxEdits
  /\ DataString(secret.data, "username") # value
  /\ secret' = [secret EXCEPT
                  !.data = ApplyPatch(@, [key \in {"username"} |-> value]),
                  !.resourceVersion = @ + 1]
  /\ edits' = edits + 1
  /\ UNCHANGED << configFile, kubeSecret, parked, clock, mints, r >>

Rewrite == \E file \in RewireConfigFiles : WriteConfig(file)

Reannotate ==
  \E value \in {Str3("a", "/", "b"), Str3("b", "/", "a")} :
     EditAnnotation(TRUE, value)

Rename == EditUsername(ForeignName)

NextRewire ==
  \/ Fetch
  \/ Resolve
  \/ Ensure
  \/ Mint
  \/ Patch
  \/ Rewrite
  \/ Reannotate
  \/ Rename

SpecRewire == InitRewire /\ [][NextRewire]_vars

\* the entries of the config file as it is now
EntriesOf(file) == { file.items[i] : i \in 1..Len(file.items) }

\* the Get, the lookup and the parse of this step used the file and the
\* annotation as they are now, and nothing of the reconciliation before
ReadsAfresh ==
  (r.pc = "idle" /\ r' # r /\ r'.pc # "idle")
  => /\ r'.secret = secret
     /\ r'.cfg \in EntriesOf(configFile)
     /\ r'.cfg.Identity = IdentityPart(secret.annotation)
     /\ r'.parse.target.namespace = NamespacePart(secret.annotation)

FirstIndex(file, identity) ==
  CHOOSE i \in 1..Len(file.items) :
    /\ file.items[i].Identity = identity
    /\ \A j \in 1..(i - 1) : file.items[j].Identity # identity

\* C22: when several config entries have the same identity, the
\* reconciliation uses the first of them in file order: its target-secret
\* coordinates decide which client is resolved, its service account and
\* expiration go into the token request, its service-account name is
\* written; a later entry of that identity is never used.
C22_FirstMatchWins ==
  [][/\ (r.pc = "idle" /\ r' # r /\ r'.pc # "idle")
        => /\ r'.cfg = configFile.items[FirstIndex(configFile,
                                                   r'.parse.target.identity)]
           /\ r'.pc = "resolve" <=> HasTarget(r'.cfg)
     /\ (r.pc # "idle" /\ r' # r)
        => /\ r'.cfg = r.cfg
           /\ Called(r', "tokenrequest")
                => (HasTarget(r.cfg) <=> r.client = "target")
     /\ (r.pc = "mint" /\ r' # r)
        => LastCall(r') = Call("tokenrequest", r.client,
                               r.cfg.ServiceAccountName,
                               r.cfg.ExpirationSeconds)
     /\ (r.pc = "patch" /\ r' # r /\ "username" \in DOMAIN r'.patch)
        => r'.patch["username"] = r.cfg.ServiceAccountName
    ]_vars

\* two entries of identity "a", the first with a target secret: the token
\* is asked of the target client, for the first entry's account and
\* expiration
C22_Witness ==
  /\ Returned /\ r.result.kind = "ok"
  /\ edits = 0
  /\ configFile
       = ConfigFile(<< Targeted(SaTwo, 3600, IdA), Entry(SaOne, 600, IdA) >>)
  /\ r.calls = << Call("get", "garden", EmptyString, 0),
                  Call("get", "local", KubeSecretName, 0),
                  Call("tokenrequest", "target", SaTwo, 3600),
                  Call("patch", "garden", EmptyString, 0) >>
  /\ secret.data["username"] = SaTwo

\* C23: in every step of every reconciliation the controller creates no
\* Secret and deletes none, and changes nothing of the Secret but
\* data.token, data.username and data.namespace: labels, the annotation and
\* every other data key stay as the store holds them, and only the patch
\* step writes at all.
C23_OnlyManagedFieldsWritten ==
  [][r' # r
     => /\ secret'.exists = secret.exists
        /\ secret'.labels = secret.labels
        /\ secret'.annotated = secret.annotated
        /\ secret'.annotation = secret.annotation
        /\ \A key \in (DOMAIN secret.data \cup DOMAIN secret'.data)
                        \ ManagedKeys :
             /\ key \in DOMAIN secret.data /\ key \in DOMAIN secret'.data
             /\ secret'.data[key] = secret.data[key]
        /\ secret' # secret
             => /\ r.pc = "patch" /\ r'.result.kind = "ok"
                /\ DOMAIN secret.data \subseteq DOMAIN secret'.data
        /\ ~secret.exists => secret' = secret
    ]_vars

\* a Secret with a data key of another owner and an edited label, after a
\* reconciliation that minted: both are in the store next to the token
C23_Witness ==
  /\ Returned /\ r.result.kind = "ok"
  /\ Called(r, "tokenrequest") /\ Called(r, "patch")
  /\ secret.exists /\ secret.labels /\ edits = 1
  /\ OtherKey \in DOMAIN secret.data /\ secret.data[OtherKey] = << "x" >>
  /\ ManagedKeys \subseteq DOMAIN secret.data
  /\ StoredToken = r.token

\* the places of the calls of this kind in the log of a reconciliation
CallsOf(state, op) == {i \in 1..Len(state.calls) : state.calls[i].op = op}

\* C25: a stored token that the review reports authenticated and that is at
\* most half its lifetime old is kept: no token request, and data.token in
\* the store is not touched; a reconciliation of a managed Secret that
\* nobody changed since it was read, keeping the token, leaves the Secret
\* as it is (so a second run at the same clock value changes nothing); and
\* a reconciliation issues at most one token request and at most one patch,
\* the patch last and the token request right before it.
C25_KeptTokenUntouched ==
  [][/\ (/\ r.pc = "ensure" /\ r' # r
         /\ r'.needs.review = "authenticated"
         /\ HoldsClaims(ReadToken) /\ ~PastHalf(ReadToken, clock))
        => /\ r'.pc = "patch" /\ r'.token = ReadToken
           /\ ~Called(r', "tokenrequest") /\ mints' = mints
     /\ (/\ r.pc = "patch" /\ r'.pc = "idle" /\ r'.result.kind = "ok"
         /\ ~Called(r, "tokenrequest"))
        => /\ DataString(secret'.data, "token") = StoredToken
           /\ (Managed(r) /\ ~ChangedSinceRead)
                => /\ secret' = secret
                   /\ r'.patch = NoData
     /\ r' # r
        => /\ Cardinality(CallsOf(r', "tokenrequest")) <= 1
           /\ Cardinality(CallsOf(r', "patch")) <= 1
           /\ \A i \in CallsOf(r', "patch") : i = Len(r'.calls)
           /\ \A i \in CallsOf(r', "tokenrequest") :
                /\ i >= Len(r'.calls) - 1
                /\ \A j \in CallsOf(r', "patch") : i = j - 1
    ]_vars

\* the second of two reconciliations at one clock value, with nothing else
\* writing: the token minted by the first is kept, the patch is empty, the
\* Secret is what the second run read
C25_Witness ==
  /\ Returned /\ r.result.kind = "ok"
  /\ edits = 0 /\ mints = 1
  /\ Called(r, "review") /\ ~Called(r, "tokenrequest") /\ Called(r, "patch")
  /\ Managed(r)
  /\ ClaimsOf(ReadToken).iat * Second = clock
  /\ r.patch = NoData
  /\ secret = r.secret

\* C26: after every successful reconciliation the token in data.token was
\* minted for the service account whose name is in data.username, also when
\* the config entry's serviceAccountName or the annotation's identity
\* changed between reconciliations (nobody but the reconciler writing
\* data.token and data.username).
C26_TokenForStoredAccount ==
  [][(/\ r.pc = "patch" /\ r'.pc = "idle" /\ r'.result.kind = "ok"
      /\ DataString(secret.data, "username")
           = DataString(r.secret.data, "username")
      /\ StoredToken = ReadToken
      /\ HoldsClaims(r.token))
     => ClaimsOf(DataString(secret'.data, "token")).sub
          = DataString(secret'.data, "username")]_vars

(***************************************************************************)
(* Two Secret keys, each with the one worker the framework runs for it at  *)
(* a time.  secret and r are the key whose worker takes the next step,     *)
(* parked is the other key with its worker where it stopped; the workers   *)
(* share the config file, the clock and the metal cluster.                 *)
(***************************************************************************)
TwoIdentities ==
  ConfigFile(<< Entry(SaTwo, 120, IdB), Entry(SaOne, 600, IdA) >>)

InitPair ==
  /\ configFile \in {TwoIdentities, TestConfig}
  /\ kubeSecret = "absent"
  /\ secret = Secret(TRUE, Str3("a", "/", "b"), FALSE, NoData, 1)
  /\ clock = 0
  /\ mints = 0
  /\ edits = 0
  /\ r = Idle
  /\ parked = Keyed(Secret(TRUE, Str3("b", "/", "a"), FALSE, NoData, 1), Idle)

\* workers that share their local variables: the other key's Secret comes
\* up under the locals of the worker that ran before
SwitchSharingLocals ==
  /\ secret' = parked.secret
  /\ parked' = Keyed(secret, parked.r)
  /\ UNCHANGED << configFile, kubeSecret, clock, mints, edits, r >>

\* the other worker takes the next step: each worker has its own locals
\* (the variables of its Reconcile call) and works on its own key
Switch ==
  /\ secret' = parked.secret
  /\ r' = parked.r
  /\ parked' = Keyed(secret, r)
  /\ UNCHANGED << configFile, kubeSecret, clock, mints, edits >>

NextPair ==
  \/ Fetch
  \/ Ensure
  \/ Mint
  \/ Patch
  \/ Switch

SpecPair == InitPair /\ [][NextPair]_vars

\* what a Secret holds when its reconciliations run with no other key
\* around: nothing before the first successful one (and for ever when no
\* entry has its identity), after it the entry's account, the annotation's
\* namespace and a token issued for that account and expiration
AloneOutcome(object) ==
  IF NoEntryFor(IdentityPart(object.annotation))
    THEN object.data = NoData
    ELSE \/ object.data = NoData
         \/ LET entry == configFile.items[
                           FirstIndex(configFile,
                                      IdentityPart(object.annotation))]
                token == DataString(object.data, "token")
            IN /\ DOMAIN object.data = ManagedKeys
               /\ object.data["username"] = entry.ServiceAccountName
               /\ object.data["namespace"]
                    = NamespacePart(object.annotation)
               /\ HoldsClaims(token)
               /\ ClaimsOf(token).sub = entry.ServiceAccountName
               /\ ClaimsOf(token).exp - ClaimsOf(token).iat
                    = entry.ExpirationSeconds

\* C24: reconciliations of two Secret keys whose steps interleave in any
\* order: a step of one reconciliation never writes the other Secret, a
\* worker patches the Secret it read, and each Secret holds at every moment
\* what it would hold had its reconciliations run with the other key out of
\* the way (the same account, namespace and kind of token; which token it
\* is depends on the order of the token requests).
C24_DistinctKeysIndependent ==
  [][/\ parked' # parked
        => /\ parked'.secret = secret /\ secret' = parked.secret
           /\ parked'.r = r /\ r' = parked.r
     /\ secret'.annotation # secret.annotation
        => secret' = parked.secret
     /\ r.pc # "idle" => r.secret.annotation = secret.annotation
     /\ AloneOutcome(secret') /\ AloneOutcome(parked'.secret)
    ]_vars

\* both reconciliations returned after steps that alternated between the
\* keys, each Secret with the token of its own account
C24_Witness ==
  /\ configFile = TwoIdentities
  /\ Returned /\ r.result.kind = "ok"
  /\ parked.r.pc = "idle" /\ parked.r.result.kind = "ok"
  /\ Called(r, "tokenrequest") /\ Called(parked.r, "tokenrequest")
  /\ ClaimsOf(StoredToken).jti = 1
  /\ ClaimsOf(DataString(parked.secret.data, "token")).jti = 2
  /\ secret.data["username"] # parked.secret.data["username"]
  /\ secret.data["namespace"] # parked.secret.data["namespace"]

=============================================================================
